---- MODULE Spec2Model ----
(***************************************************************************)
(* Model of src/src/main.rs: the TradingState ledger (cash, positions,     *)
(* symbol), its operations execute_trade, check_tp_sl and                  *)
(* calculate_portfolio_value, the signal functions, and the loop of main.  *)
(*                                                                         *)
(* Numbers.  The program computes in f64.  The model computes exactly on    *)
(* decimal grids: a price is an integer number of 1/PriceScale, a trade     *)
(* size of 1/SizeScale, a rate (fee, take profit, stop loss) of             *)
(* 1/RateScale, an amount of 1/10, and cash is a fixed-point       *)
(* number with CashScale = PriceScale*SizeScale*RateScale fractional units, *)
(* so every product the code forms is exact.  What f64 adds to the reals    *)
(* and the code depends on is kept: a quotient is a tagged value that is    *)
(* finite, +inf, -inf or NaN, and every comparison with NaN is false.       *)
(* Rounding of the last bits of an f64 is not modelled.                     *)
(***************************************************************************)
EXTENDS Integers, Sequences, FiniteSets, TLC

VARIABLES cash, positions, symbol,      \* TradingState
          pc, order_book, portfolio_value, ticks,   \* main's loop
          calls,                        \* operations applied by a direct caller
          call, pre, log,               \* history: last operation, ledger before it, events it logged
          steps,                        \* history: the steps main has run on the current snapshot
          trades                        \* history: position count before the current run of
                                        \* execute_trade calls, buys and effective sells in it

vars == <<cash, positions, symbol, pc, order_book, portfolio_value, ticks, calls, call, pre, log,
          steps, trades>>

---------------------------------------------------------------------------
\* Grids of the fixed-point representation
PriceScale == 100
SizeScale == 1000
RateScale == 1000
CashScale == PriceScale * SizeScale * RateScale

\* Program constants (main.rs lines 12-16), on their grids
TRADE_SIZE == 1
SPREAD_THRESHOLD == 5
TAKE_PROFIT == 10
STOP_LOSS == 20
TRANSACTION_COST == 5
\* SPREAD_THRESHOLD is a percentage with two decimals: 0.05 = 5/SpreadScale
SpreadScale == 100
\* main.rs line 124: TradingState::new(1000.0, "BTC/USDT")
INITIAL_CASH == 1000

---------------------------------------------------------------------------
\* Bounds of the model
MaxTicks == 3
MaxCalls == 2
MaxInitPositions == 2
MaxLevels == 2

---------------------------------------------------------------------------
\* f64 quotients: finite n/d (d > 0), +inf, -inf, NaN
Fin(n, d) == [k |-> "fin", n |-> n, d |-> d]
PInf == [k |-> "pinf", n |-> 0, d |-> 1]
NInf == [k |-> "ninf", n |-> 0, d |-> 1]
NaN == [k |-> "nan", n |-> 0, d |-> 1]

\* a / b in f64 for grid values a, b of the same scale
FDiv(a, b) ==
    IF b = 0 THEN (IF a > 0 THEN PInf ELSE IF a < 0 THEN NInf ELSE NaN)
    ELSE IF b > 0 THEN Fin(a, b) ELSE Fin(-a, -b)

\* x * m for a finite m > 0
FMul(x, m) == IF x.k = "fin" THEN Fin(x.n * m, x.d) ELSE x

IsFinite(x) == x.k = "fin"

\* comparisons of a quotient with the rational cn/cd (cd > 0); NaN compares false
FLe(x, cn, cd) ==
    CASE x.k = "fin" -> x.n * cd <= cn * x.d
      [] x.k = "ninf" -> TRUE
      [] OTHER -> FALSE
FGe(x, cn, cd) ==
    CASE x.k = "fin" -> x.n * cd >= cn * x.d
      [] x.k = "pinf" -> TRUE
      [] OTHER -> FALSE
FGt(x, cn, cd) ==
    CASE x.k = "fin" -> x.n * cd > cn * x.d
      [] x.k = "pinf" -> TRUE
      [] OTHER -> FALSE
FLt(x, cn, cd) ==
    CASE x.k = "fin" -> x.n * cd < cn * x.d
      [] x.k = "ninf" -> TRUE
      [] OTHER -> FALSE

---------------------------------------------------------------------------
\* cash: fixed point, int + frac/CashScale with 0 <= frac < CashScale
Cash(i, f) == [int |-> i + (f \div CashScale), frac |-> f % CashScale]
\* c + d, d in 1/CashScale
CashAdd(c, d) == Cash(c.int, c.frac + d)
\* a - b in 1/CashScale (for ledgers that differ by a few trades)
CashDiff(a, b) == (a.int - b.int) * CashScale + (a.frac - b.frac)

---------------------------------------------------------------------------
\* TradingState::new
New(c, s) == [cash |-> Cash(c, 0), positions |-> <<>>, symbol |-> s]

\* price * trade_size and trade_size * price * fee, in 1/CashScale
Notional(price, trade_size) == price * trade_size * RateScale
TransactionCost(price, trade_size, fee) == trade_size * price * fee

\* mutant: the sell branch adds the transaction cost instead of subtracting it
execute_trade_cost_sign(st, price, side, trade_size, fee) ==
    LET transaction_cost == TransactionCost(price, trade_size, fee) IN
    IF side = "buy" THEN
        [cash |-> CashAdd(st.cash, -(Notional(price, trade_size) + transaction_cost)),
         positions |-> Append(st.positions, price),
         log |-> Append(st.log, [ev |-> "buy", price |-> price, size |-> trade_size])]
    ELSE IF side = "sell" THEN
        IF st.positions # <<>> THEN
            [cash |-> CashAdd(st.cash, Notional(price, trade_size) + transaction_cost),
             positions |-> SubSeq(st.positions, 1, Len(st.positions) - 1),
             log |-> Append(st.log, [ev |-> "sell", price |-> price, size |-> trade_size])]
        ELSE st
    ELSE st

\* mutant: the sell branch credits cash whether or not pop() returned a position
execute_trade_unguarded_sell(st, price, side, trade_size, fee) ==
    LET transaction_cost == TransactionCost(price, trade_size, fee) IN
    IF side = "buy" THEN
        [cash |-> CashAdd(st.cash, -(Notional(price, trade_size) + transaction_cost)),
         positions |-> Append(st.positions, price),
         log |-> Append(st.log, [ev |-> "buy", price |-> price, size |-> trade_size])]
    ELSE IF side = "sell" THEN
        [cash |-> CashAdd(st.cash, Notional(price, trade_size) - transaction_cost),
         positions |-> IF st.positions # <<>>
                       THEN SubSeq(st.positions, 1, Len(st.positions) - 1) ELSE <<>>,
         log |-> Append(st.log, [ev |-> "sell", price |-> price, size |-> trade_size])]
    ELSE st

\* mutant: a capital check, the buy is skipped when cash does not cover it
execute_trade_capital_check(st, price, side, trade_size, fee) ==
    LET transaction_cost == TransactionCost(price, trade_size, fee) IN
    IF side = "buy" THEN
        IF CashAdd(st.cash, -(Notional(price, trade_size) + transaction_cost)).int >= 0 THEN
            [cash |-> CashAdd(st.cash, -(Notional(price, trade_size) + transaction_cost)),
             positions |-> Append(st.positions, price),
             log |-> Append(st.log, [ev |-> "buy", price |-> price, size |-> trade_size])]
        ELSE st
    ELSE IF side = "sell" THEN
        IF st.positions # <<>> THEN
            [cash |-> CashAdd(st.cash, Notional(price, trade_size) - transaction_cost),
             positions |-> SubSeq(st.positions, 1, Len(st.positions) - 1),
             log |-> Append(st.log, [ev |-> "sell", price |-> price, size |-> trade_size])]
        ELSE st
    ELSE st

\* mutant: the sell branch removes the oldest position (FIFO)
execute_trade_fifo(st, price, side, trade_size, fee) ==
    LET transaction_cost == TransactionCost(price, trade_size, fee) IN
    IF side = "buy" THEN
        [cash |-> CashAdd(st.cash, -(Notional(price, trade_size) + transaction_cost)),
         positions |-> Append(st.positions, price),
         log |-> Append(st.log, [ev |-> "buy", price |-> price, size |-> trade_size])]
    ELSE IF side = "sell" THEN
        IF st.positions # <<>> THEN
            [cash |-> CashAdd(st.cash, Notional(price, trade_size) - transaction_cost),
             positions |-> Tail(st.positions),
             log |-> Append(st.log, [ev |-> "sell", price |-> price, size |-> trade_size])]
        ELSE st
    ELSE st

\* execute_trade on the ledger st = [cash, positions, log]
execute_trade(st, price, side, trade_size, fee) ==
    LET transaction_cost == TransactionCost(price, trade_size, fee) IN
    IF side = "buy" THEN
        [cash |-> CashAdd(st.cash, -(Notional(price, trade_size) + transaction_cost)),
         positions |-> Append(st.positions, price),
         log |-> Append(st.log, [ev |-> "buy", price |-> price, size |-> trade_size])]
    ELSE IF side = "sell" THEN
        IF st.positions # <<>> THEN
            [cash |-> CashAdd(st.cash, Notional(price, trade_size) - transaction_cost),
             positions |-> SubSeq(st.positions, 1, Len(st.positions) - 1),
             log |-> Append(st.log, [ev |-> "sell", price |-> price, size |-> trade_size])]
        ELSE st
    ELSE st

\* self.positions.retain(|&x| x != position)
Retain(ps, position) == SelectSeq(ps, LAMBDA x : x # position)

\* profit_loss = (bid - *position) / *position
ProfitLoss(bid, position) == FDiv(bid - position, position)

\* mutant: strict comparisons, the thresholds themselves do not trigger
Trigger_strict(bid, tp, sl, position) ==
    IF FGt(ProfitLoss(bid, position), tp, RateScale) THEN "tp"
    ELSE IF FLt(ProfitLoss(bid, position), -sl, RateScale) THEN "sl"
    ELSE "none"

\* the branch of check_tp_sl's first loop a position takes
Trigger(bid, tp, sl, position) ==
    IF FGe(ProfitLoss(bid, position), tp, RateScale) THEN "tp"
    ELSE IF FLe(ProfitLoss(bid, position), -sl, RateScale) THEN "sl"
    ELSE "none"

\* positions_to_sell after the first loop
PositionsToSell(ps, bid, tp, sl) ==
    SelectSeq(ps, LAMBDA x : Trigger(bid, tp, sl, x) # "none")

\* the "Triggering ..." lines of the first loop, in order
TriggerLog(ps, bid, tp, sl) ==
    LET marked == PositionsToSell(ps, bid, tp, sl) IN
    [i \in 1..Len(marked) |->
        [ev |-> Trigger(bid, tp, sl, marked[i]), price |-> bid, size |-> TRADE_SIZE]]

\* the second loop: for each marked value, retain and then execute_trade(sell)
RECURSIVE SellLoop(_, _, _)
SellLoop(st, to_sell, bid) ==
    IF to_sell = <<>> THEN st
    ELSE SellLoop(
            execute_trade([st EXCEPT !.positions = Retain(st.positions, Head(to_sell))],
                          bid, "sell", TRADE_SIZE, TRANSACTION_COST),
            Tail(to_sell), bid)

check_tp_sl(st, bid, tp, sl) ==
    SellLoop([st EXCEPT !.log = st.log \o TriggerLog(st.positions, bid, tp, sl)],
             PositionsToSell(st.positions, bid, tp, sl), bid)

\* mutant: the open positions are valued at their entry prices, not at the bid
RECURSIVE SumEntries(_)
SumEntries(ps) == IF ps = <<>> THEN 0 ELSE Head(ps) + SumEntries(Tail(ps))
calculate_portfolio_value_at_entry(st, bid) ==
    CashAdd(st.cash, Notional(SumEntries(st.positions), TRADE_SIZE))

\* cash + positions.len() * TRADE_SIZE * bid
calculate_portfolio_value(st, bid) ==
    CashAdd(st.cash, Len(st.positions) * Notional(bid, TRADE_SIZE))

---------------------------------------------------------------------------
\* Signals
RECURSIVE SumAmounts(_)
SumAmounts(levels) ==
    IF levels = <<>> THEN 0 ELSE Head(levels).amount + SumAmounts(Tail(levels))

calculate_voi(book) ==
    LET bid_volume == SumAmounts(book.bids)
        ask_volume == SumAmounts(book.asks)
    IN [voi |-> bid_volume - ask_volume, bid_volume |-> bid_volume, ask_volume |-> ask_volume]

calculate_oir(bid_volume, ask_volume) == FDiv(bid_volume - ask_volume, bid_volume + ask_volume)

\* both arguments in half price units (1/(2*PriceScale)): (bid + ask) / 2.0
calculate_mpb(last_price, mid_price) == last_price - mid_price

calculate_spread(bid, ask) == FMul(FDiv(ask - bid, bid), 100)

should_trade(spread, voi, spread_threshold) ==
    FLe(spread, spread_threshold, SpreadScale) /\ voi # 0

\* mutant: the buy is executed at the best ask
EntryRule_buy_at_ask(st, book) ==
    LET bid == book.bids[1].price
        ask == book.asks[1].price
        spread == calculate_spread(bid, ask)
        last_price == bid + ask
        v == calculate_voi(book)
        oir == calculate_oir(v.bid_volume, v.ask_volume)
        mpb == calculate_mpb(last_price, bid + ask)
    IN  IF should_trade(spread, v.voi, SPREAD_THRESHOLD) THEN
            IF v.voi > 0 /\ FGt(oir, 1, 10) THEN
                execute_trade(st, ask, "buy", TRADE_SIZE, TRANSACTION_COST)
            ELSE IF v.voi < 0 /\ FLt(Fin(mpb, 2 * PriceScale), -1, 10) /\ st.positions # <<>> THEN
                execute_trade(st, ask, "sell", TRADE_SIZE, TRANSACTION_COST)
            ELSE st
        ELSE st

\* mutant: the buy branch does not test oir
EntryRule_no_oir(st, book) ==
    LET bid == book.bids[1].price
        ask == book.asks[1].price
        spread == calculate_spread(bid, ask)
        last_price == bid + ask
        v == calculate_voi(book)
        mpb == calculate_mpb(last_price, bid + ask)
    IN  IF should_trade(spread, v.voi, SPREAD_THRESHOLD) THEN
            IF v.voi > 0 THEN
                execute_trade(st, bid, "buy", TRADE_SIZE, TRANSACTION_COST)
            ELSE IF v.voi < 0 /\ FLt(Fin(mpb, 2 * PriceScale), -1, 10) /\ st.positions # <<>> THEN
                execute_trade(st, ask, "sell", TRADE_SIZE, TRANSACTION_COST)
            ELSE st
        ELSE st

\* mutant: the sell branch does not test mpb
EntryRule_no_mpb(st, book) ==
    LET bid == book.bids[1].price
        ask == book.asks[1].price
        spread == calculate_spread(bid, ask)
        v == calculate_voi(book)
        oir == calculate_oir(v.bid_volume, v.ask_volume)
    IN  IF should_trade(spread, v.voi, SPREAD_THRESHOLD) THEN
            IF v.voi > 0 /\ FGt(oir, 1, 10) THEN
                execute_trade(st, bid, "buy", TRADE_SIZE, TRANSACTION_COST)
            ELSE IF v.voi < 0 /\ st.positions # <<>> THEN
                execute_trade(st, ask, "sell", TRADE_SIZE, TRANSACTION_COST)
            ELSE st
        ELSE st

\* main, lines 137-161, once both sides of the book are known to be non-empty:
\* the signals and the entry rule applied to the ledger st
EntryRule(st, book) ==
    LET bid == book.bids[1].price
        ask == book.asks[1].price
        spread == calculate_spread(bid, ask)
        last_price == bid + ask
        v == calculate_voi(book)
        oir == calculate_oir(v.bid_volume, v.ask_volume)
        mpb == calculate_mpb(last_price, bid + ask)
    IN  IF should_trade(spread, v.voi, SPREAD_THRESHOLD) THEN
            IF v.voi > 0 /\ FGt(oir, 1, 10) THEN
                execute_trade(st, bid, "buy", TRADE_SIZE, TRANSACTION_COST)
            ELSE IF v.voi < 0 /\ FLt(Fin(mpb, 2 * PriceScale), -1, 10) /\ st.positions # <<>> THEN
                execute_trade(st, ask, "sell", TRADE_SIZE, TRANSACTION_COST)
            ELSE st
        ELSE st

---------------------------------------------------------------------------
\* Inputs: the snapshots the feed may deliver.  Level.price and Level.amount are
\* f64 and the code validates neither, so zero and negative values are inputs.
BidPrices == {0, 9800, 10000, 10200}
AskPrices == {-100, 10002, 10005, 10202}
BidAmounts == {0, 10}
AskAmounts == {-10, 0, 5, 9}

Level(p, a) == [price |-> p, amount |-> a]

\* a side of n levels, best first: bids descend and asks ascend from the best
\* level; the levels behind the best one carry the amount 0.5
BidSide(best, n) == [i \in 1..n |-> IF i = 1 THEN best ELSE Level(best.price - (i - 1), 5)]
AskSide(best, n) == [i \in 1..n |-> IF i = 1 THEN best ELSE Level(best.price + (i - 1), 5)]

BidSides ==
    {<<>>} \cup {BidSide(Level(p, a), n) : p \in BidPrices, a \in BidAmounts, n \in 1..MaxLevels}
AskSides ==
    {<<>>} \cup {AskSide(Level(p, a), n) : p \in AskPrices, a \in AskAmounts, n \in 1..MaxLevels}

Books == {[bids |-> b, asks |-> a] : b \in BidSides, a \in AskSides}
NoBook == [bids |-> <<>>, asks |-> <<>>]

\* Inputs of a direct caller of the ledger's operations (as the tests are)
ApiEntries == {10000, 10200}
ApiPrices == {10000, 10200}
ApiBids == {0, 9800, 10000, 10100, 10200}
ApiValueBids == {10000, 10100}
ApiSides == {"buy", "sell"}
ApiSizes == {1, 2}
ApiRates == {10, 20}
ApiFees == {0, 5}

RECURSIVE SeqsUpTo(_, _)
SeqsUpTo(S, n) ==
    IF n = 0 THEN {<<>>}
    ELSE SeqsUpTo(S, n - 1) \cup {Append(s, x) : s \in {q \in SeqsUpTo(S, n - 1) : Len(q) = n - 1}, x \in S}

---------------------------------------------------------------------------
\* History
Call(op, price, side, size, fee, tp, sl) ==
    [op |-> op, price |-> price, side |-> side, size |-> size, fee |-> fee, tp |-> tp, sl |-> sl]
NoCall == Call("none", 0, "", 0, 0, 0, 0)
Step(op, bid) == [op |-> op, bid |-> bid]
Trades(base, buys, sells) == [base |-> base, buys |-> buys, sells |-> sells]
\* number of "Buying" / "Selling" lines in the events l
Logged(l, ev) == Cardinality({i \in 1..Len(l) : l[i].ev = ev})
Ledger == [cash |-> cash, positions |-> positions, log |-> <<>>]
Snapshot == [cash |-> cash, positions |-> positions, call |-> call,
             portfolio_value |-> portfolio_value]

---------------------------------------------------------------------------
\* main: the state after TradingState::new(1000.0, "BTC/USDT"), before the loop
Init ==
    /\ cash = New(INITIAL_CASH, "BTC/USDT").cash
    /\ positions = New(INITIAL_CASH, "BTC/USDT").positions
    /\ symbol = New(INITIAL_CASH, "BTC/USDT").symbol
    /\ pc = "recv"
    /\ order_book = NoBook
    /\ portfolio_value = Cash(0, 0)
    /\ ticks = 0
    /\ calls = 0
    /\ call = NoCall
    /\ pre = [cash |-> Cash(INITIAL_CASH, 0), positions |-> <<>>, call |-> NoCall,
              portfolio_value |-> Cash(0, 0)]
    /\ log = <<>>
    /\ steps = <<>>
    /\ trades = Trades(Len(positions), 0, 0)

\* lines 135-138: the stream yields a snapshot; indexing levels[0] of an empty
\* side panics
Recv ==
    /\ pc = "recv"
    /\ ticks < MaxTicks
    /\ \E book \in Books :
        /\ order_book' = book
        /\ pc' = IF book.bids = <<>> \/ book.asks = <<>> THEN "panicked" ELSE "entry"
    /\ ticks' = ticks + 1
    /\ call' = Call("recv", 0, "", 0, 0, 0, 0)
    /\ pre' = Snapshot
    /\ log' = <<>>
    /\ steps' = <<>>
    /\ UNCHANGED <<cash, positions, symbol, portfolio_value, calls, trades>>

\* line 135: the stream ends, the loop and main return
StreamEnd ==
    /\ pc = "recv"
    /\ pc' = "done"
    /\ UNCHANGED <<cash, positions, symbol, order_book, portfolio_value, ticks, calls, call, pre, log,
                   steps, trades>>

\* mutant: check_tp_sl sits inside the should_trade block and is skipped when
\* the gate fails
Entry_sweep_inside_gate ==
    /\ pc = "entry"
    /\ LET st == EntryRule(Ledger, order_book) IN
        /\ cash' = st.cash
        /\ positions' = st.positions
        /\ log' = log \o st.log
    /\ call' = Call("entry", 0, "", 0, 0, 0, 0)
    /\ pre' = Snapshot
    /\ steps' = Append(steps, Step("entry", order_book.bids[1].price))
    /\ pc' = IF should_trade(calculate_spread(order_book.bids[1].price,
                                              order_book.asks[1].price),
                             calculate_voi(order_book).voi, SPREAD_THRESHOLD)
             THEN "tp_sl" ELSE "value"
    /\ UNCHANGED <<symbol, order_book, portfolio_value, ticks, calls, trades>>

\* lines 137-161
Entry ==
    /\ pc = "entry"
    /\ LET st == EntryRule(Ledger, order_book) IN
        /\ cash' = st.cash
        /\ positions' = st.positions
        /\ log' = log \o st.log
    /\ call' = Call("entry", 0, "", 0, 0, 0, 0)
    /\ pre' = Snapshot
    /\ steps' = Append(steps, Step("entry", order_book.bids[1].price))
    /\ pc' = "tp_sl"
    /\ UNCHANGED <<symbol, order_book, portfolio_value, ticks, calls, trades>>

\* line 164
RiskExit ==
    /\ pc = "tp_sl"
    /\ LET bid == order_book.bids[1].price
           st == check_tp_sl(Ledger, bid, TAKE_PROFIT, STOP_LOSS) IN
        /\ cash' = st.cash
        /\ positions' = st.positions
        /\ log' = log \o st.log
        /\ call' = Call("check_tp_sl", bid, "", 0, 0, TAKE_PROFIT, STOP_LOSS)
        /\ steps' = Append(steps, Step("check_tp_sl", bid))
    /\ pre' = Snapshot
    /\ pc' = "value"
    /\ UNCHANGED <<symbol, order_book, portfolio_value, ticks, calls, trades>>

\* lines 167-172
Valuation ==
    /\ pc = "value"
    /\ LET bid == order_book.bids[1].price IN
        /\ portfolio_value' = calculate_portfolio_value(Ledger, bid)
        /\ call' = Call("value", bid, "", 0, 0, 0, 0)
        /\ steps' = Append(steps, Step("value", bid))
    /\ pre' = Snapshot
    /\ pc' = "sleep"
    /\ UNCHANGED <<cash, positions, symbol, order_book, ticks, calls, log, trades>>

\* line 175
Sleep ==
    /\ pc = "sleep"
    /\ pc' = "recv"
    /\ UNCHANGED <<cash, positions, symbol, order_book, portfolio_value, ticks, calls, call, pre, log,
                   steps, trades>>

Next == Recv \/ StreamEnd \/ Entry \/ RiskExit \/ Valuation \/ Sleep

Spec == Init /\ [][Next]_vars

---------------------------------------------------------------------------
\* main late in a run: 9950 buys at 100.00 have taken 9950 * 0.1005 = 999.975
\* of the 1000.0, and one sweep at a bid of 101.00 or more has removed all of
\* these equal positions (retain) without a credit (pop found none)
LateCash == Cash(0, 25 * (CashScale \div RateScale))
InitDrained ==
    /\ cash = LateCash
    /\ positions = <<>>
    /\ symbol = New(INITIAL_CASH, "BTC/USDT").symbol
    /\ pc = "recv"
    /\ order_book = NoBook
    /\ portfolio_value = Cash(0, 0)
    /\ ticks = 0
    /\ calls = 0
    /\ call = NoCall
    /\ pre = [cash |-> LateCash, positions |-> <<>>, call |-> NoCall,
              portfolio_value |-> Cash(0, 0)]
    /\ log = <<>>
    /\ steps = <<>>
    /\ trades = Trades(Len(positions), 0, 0)

SpecDrained == InitDrained /\ [][Next]_vars

---------------------------------------------------------------------------
\* The ledger under a direct caller: any ledger a caller can build with new and
\* pushes (as tests::test_check_tp_sl does), then any operations in any order
InitLedger ==
    /\ cash \in {Cash(INITIAL_CASH, 0), Cash(0, 0)}
    /\ positions \in SeqsUpTo(ApiEntries, MaxInitPositions)
    /\ symbol = "BTC/USDT"
    /\ pc = "api"
    /\ order_book = NoBook
    /\ portfolio_value = Cash(0, 0)
    /\ ticks = 0
    /\ calls = 0
    /\ call = NoCall
    /\ pre = [cash |-> cash, positions |-> positions, call |-> NoCall,
              portfolio_value |-> Cash(0, 0)]
    /\ log = <<>>
    /\ steps = <<>>
    /\ trades = Trades(Len(positions), 0, 0)

CallExecuteTrade ==
    /\ pc = "api"
    /\ calls < MaxCalls
    /\ \E price \in ApiPrices, side \in ApiSides, size \in ApiSizes, fee \in ApiFees :
        LET st == execute_trade(Ledger, price, side, size, fee) IN
        /\ cash' = st.cash
        /\ positions' = st.positions
        /\ log' = st.log
        /\ call' = Call("execute_trade", price, side, size, fee, 0, 0)
        /\ trades' = Trades(trades.base,
                            trades.buys + Logged(st.log, "buy"),
                            trades.sells + Logged(st.log, "sell"))
    /\ pre' = Snapshot
    /\ calls' = calls + 1
    /\ UNCHANGED <<symbol, pc, order_book, portfolio_value, ticks, steps>>

CallCheckTpSl ==
    /\ pc = "api"
    /\ calls < MaxCalls
    /\ \E bid \in ApiBids, tp \in ApiRates, sl \in ApiRates :
        LET st == check_tp_sl(Ledger, bid, tp, sl) IN
        /\ cash' = st.cash
        /\ positions' = st.positions
        /\ log' = st.log
        /\ call' = Call("check_tp_sl", bid, "", 0, 0, tp, sl)
        /\ trades' = Trades(Len(st.positions), 0, 0)
    /\ pre' = Snapshot
    /\ calls' = calls + 1
    /\ UNCHANGED <<symbol, pc, order_book, portfolio_value, ticks, steps>>

CallPortfolioValue ==
    /\ pc = "api"
    /\ calls < MaxCalls
    /\ \E bid \in ApiValueBids :
        /\ portfolio_value' = calculate_portfolio_value(Ledger, bid)
        /\ call' = Call("value", bid, "", 0, 0, 0, 0)
    /\ pre' = Snapshot
    /\ calls' = calls + 1
    /\ log' = <<>>
    /\ UNCHANGED <<cash, positions, symbol, pc, order_book, ticks, steps, trades>>

NextLedger == CallExecuteTrade \/ CallCheckTpSl \/ CallPortfolioValue

SpecLedger == InitLedger /\ [][NextLedger]_vars

---------------------------------------------------------------------------
\* Properties.  After an operation, call names it and its arguments, pre is the
\* ledger (and the previous call) before it, and cash/positions are its result.

\* the signals of the snapshot being processed (both sides non-empty)
TickBid == order_book.bids[1].price
TickAsk == order_book.asks[1].price
TickVoi == calculate_voi(order_book)
TickSpread == calculate_spread(TickBid, TickAsk)
TickOir == calculate_oir(TickVoi.bid_volume, TickVoi.ask_volume)
BuySignal == TickVoi.voi > 0 /\ FGt(TickOir, 1, 10)
TickMpb == calculate_mpb(TickBid + TickAsk, TickBid + TickAsk)
SellSignal == TickVoi.voi < 0 /\ FLt(Fin(TickMpb, 2 * PriceScale), -1, 10)
\* the entry rule of the current tick has just run
AfterEntry == pc = "tp_sl"

\* C1: execute_trade(p, "buy", s, f) decreases cash by exactly p*s*(1+f) and
\* pushes p as the newest position; an immediately following
\* execute_trade(p, "sell", s, f) decreases the position count by one and
\* increases cash by exactly p*s*(1-f).
C1_BuyThenSell ==
    /\ (call.op = "execute_trade" /\ call.side = "buy") =>
        /\ CashDiff(pre.cash, cash) = call.price * call.size * (RateScale + call.fee)
        /\ Len(positions) = Len(pre.positions) + 1
        /\ positions[Len(positions)] = call.price
        /\ SubSeq(positions, 1, Len(pre.positions)) = pre.positions
    /\ (/\ call.op = "execute_trade" /\ call.side = "sell"
        /\ pre.call.op = "execute_trade" /\ pre.call.side = "buy"
        /\ pre.call.price = call.price /\ pre.call.size = call.size
        /\ pre.call.fee = call.fee) =>
        /\ Len(positions) = Len(pre.positions) - 1
        /\ CashDiff(cash, pre.cash) = call.price * call.size * (RateScale - call.fee)

C1_Witness ==
    /\ call.op = "execute_trade" /\ call.side = "sell"
    /\ pre.call.op = "execute_trade" /\ pre.call.side = "buy"
    /\ pre.call.price = call.price /\ pre.call.size = call.size /\ pre.call.fee = call.fee
    /\ call.price = 10000 /\ call.size = 2 /\ call.fee = 5
    /\ Len(positions) = 1

\* tests::FLOAT_TOLERANCE = 0.00001, in 1/CashScale
FLOAT_TOLERANCE == CashScale \div 100000
Abs(x) == IF x < 0 THEN -x ELSE x

\* C2: from exactly one open position at entry 100, check_tp_sl(102, 0.01, 0.02)
\* leaves no open position and increases cash by 100*TRADE_SIZE*1.01 minus
\* 102*TRADE_SIZE*TRANSACTION_COST, within 1e-5.
C2_TakeProfitCash ==
    (/\ call.op = "check_tp_sl" /\ call.price = 10200
     /\ call.tp = TAKE_PROFIT /\ call.sl = STOP_LOSS
     /\ pre.positions = <<10000>>) =>
        /\ positions = <<>>
        /\ Abs(CashDiff(cash, pre.cash)
               - (10000 * TRADE_SIZE * (RateScale + TAKE_PROFIT)
                  - 10200 * TRADE_SIZE * TRANSACTION_COST)) < FLOAT_TOLERANCE

\* C3: with one open position at entry e, check_tp_sl(bid, tp, sl) closes it
\* whenever (bid - e)/e >= tp or (bid - e)/e <= -sl, the boundaries included,
\* and leaves it open when -sl < (bid - e)/e < tp.
C3_InclusiveThresholds ==
    (call.op = "check_tp_sl" /\ Len(pre.positions) = 1) =>
        LET e == pre.positions[1]
            bid == call.price
        IN  /\ (e > 0 /\ (bid - e) * RateScale >= call.tp * e) => positions = <<>>
            /\ (e > 0 /\ (bid - e) * RateScale <= -(call.sl * e)) => positions = <<>>
            /\ (/\ e > 0
                /\ (bid - e) * RateScale < call.tp * e
                /\ (bid - e) * RateScale > -(call.sl * e)) => positions = pre.positions

C3_Witness ==
    /\ call.op = "check_tp_sl" /\ pre.positions = <<10000>>
    /\ call.price = 9800 /\ call.sl = 20 /\ call.tp = 10
    /\ positions = <<>>

\* C4: execute_trade(price, "sell", size, fee) on a ledger with no open position
\* leaves cash, the empty position collection and the symbol unchanged.
C4_NoOpSell ==
    (call.op = "execute_trade" /\ call.side = "sell" /\ pre.positions = <<>>) =>
        /\ cash = pre.cash
        /\ positions = <<>>
        /\ symbol = "BTC/USDT"
        /\ log = <<>>

C4_Witness ==
    /\ call.op = "execute_trade" /\ call.side = "sell" /\ pre.positions = <<>>
    /\ call.price = 10000 /\ call.fee = 5 /\ call.size = 1

\* C5: calculate_portfolio_value(bid) returns cash + (open positions) *
\* TRADE_SIZE * bid whatever the entry prices are, leaves cash and positions
\* unchanged, and returns the same result when called again with the same bid.
C5_ValuationPure ==
    (call.op = "value") =>
        /\ CashDiff(portfolio_value, cash) = Len(positions) * TRADE_SIZE * call.price * RateScale
        /\ cash = pre.cash
        /\ positions = pre.positions
        /\ (pre.call.op = "value" /\ pre.call.price = call.price) =>
                portfolio_value = pre.portfolio_value

C5_Witness ==
    /\ call.op = "value" /\ pre.call.op = "value" /\ pre.call.price = call.price
    /\ call.price = 10100
    /\ positions = <<10000, 10200>>

\* the snapshot of the end-to-end scenario, and the end of its iteration as the first tick
EndToEndBook == [bids |-> <<Level(10000, 10)>>, asks |-> <<Level(10002, 5)>>]
FirstTickDone == ticks = 1 /\ pc = "sleep" /\ order_book = EndToEndBook

\* C6: from the fresh ledger (cash 1000, no position), one full loop iteration
\* on the snapshot best bid 100 / amount 1.0, best ask 100.02 / amount 0.5
\* executes exactly one buy at 100 for TRADE_SIZE; at the end of the iteration
\* cash is 1000 - 100*TRADE_SIZE*(1+TRANSACTION_COST) and the one open position
\* has entry price 100.
C6_EndToEnd ==
    FirstTickDone =>
        /\ log = <<[ev |-> "buy", price |-> 10000, size |-> TRADE_SIZE]>>
        /\ CashDiff(Cash(INITIAL_CASH, 0), cash)
             = 10000 * TRADE_SIZE * (RateScale + TRANSACTION_COST)
        /\ positions = <<10000>>

C6_Witness == FirstTickDone /\ Len(positions) = 1

\* C7: per snapshot the entry rule executes at most one trade: a buy of
\* TRADE_SIZE at the best bid when voi > 0 and oir > 0.1, otherwise (the gate
\* passed) a sell of TRADE_SIZE at the best ask when voi < 0, mpb < -0.1 and a
\* position is open, otherwise nothing; never both, so the position count
\* changes by at most one.
C7_AtMostOneEntry ==
    AfterEntry =>
        /\ Len(log) <= 1
        /\ Len(positions) - Len(pre.positions) \in {-1, 0, 1}
        /\ (log # <<>> /\ log[1].ev = "buy") =>
            /\ BuySignal
            /\ log[1].price = TickBid /\ log[1].size = TRADE_SIZE
            /\ positions = Append(pre.positions, TickBid)
        /\ (log # <<>> /\ log[1].ev = "sell") =>
            /\ ~BuySignal
            /\ SellSignal
            /\ pre.positions # <<>>
            /\ log[1].price = TickAsk /\ log[1].size = TRADE_SIZE
            /\ Len(positions) = Len(pre.positions) - 1
        /\ (log = <<>>) =>
            /\ cash = pre.cash /\ positions = pre.positions
            /\ ~(should_trade(TickSpread, TickVoi.voi, SPREAD_THRESHOLD) /\ BuySignal)

C7_Witness ==
    /\ AfterEntry /\ log # <<>> /\ log[1].ev = "buy"
    /\ Len(pre.positions) = 1 /\ Len(positions) = 2

\* the gate as the specification states it: spread finite, within the threshold, voi nonzero
GateOfSpec ==
    /\ IsFinite(TickSpread)
    /\ FLe(TickSpread, SPREAD_THRESHOLD, SpreadScale)
    /\ TickVoi.voi # 0

\* C8: the entry rule trades only if the spread is finite, spread <=
\* SPREAD_THRESHOLD and voi != 0; on every snapshot that violates one of the
\* three (a non-finite spread included) it leaves cash and positions unchanged.
C8_EntryGate ==
    (AfterEntry /\ ~GateOfSpec) => (cash = pre.cash /\ positions = pre.positions)

\* C9: a snapshot with an empty bid side or an empty ask side is never a fatal
\* failure: the loop skips the tick and goes on to the next snapshot.
C9_EmptySideNotFatal == pc # "panicked"

\* C10: on every snapshot whose total volume bidVolume + askVolume is zero the
\* entry rule executes neither a buy nor a sell.
C10_ZeroVolumeGuard ==
    (AfterEntry /\ TickVoi.bid_volume + TickVoi.ask_volume = 0) =>
        (log = <<>> /\ cash = pre.cash /\ positions = pre.positions)

\* the number of positions the last operation removed
Removed == Len(pre.positions) - Len(positions)
\* a position at entry e > 0 is strictly inside the thresholds at the bid
Inside(e, bid, tp, sl) ==
    /\ (bid - e) * RateScale < tp * e
    /\ (bid - e) * RateScale > -(sl * e)

C12_SweepOnlyQualifying ==
    (call.op = "check_tp_sl") =>
        positions = SelectSeq(pre.positions,
                              LAMBDA e : Inside(e, call.price, call.tp, call.sl))

\* pre.positions is a prefix of positions
Kept == Len(positions) >= Len(pre.positions)
        /\ SubSeq(positions, 1, Len(pre.positions)) = pre.positions

\* C13: mpb is 0 on every tick, so the sell branch of the entry rule is never
\* taken: the entry rule logs no sell and removes no position, every sell is
\* executed by check_tp_sl at the bid, and positions are removed only there.
C13_SellBranchDead ==
    /\ pc \in {"entry", "tp_sl", "value", "sleep"} => TickMpb = 0
    /\ pc \in {"entry", "tp_sl"} => \A i \in 1..Len(log) : log[i].ev # "sell"
    /\ AfterEntry => Kept
    /\ \A i \in 1..Len(log) :
            log[i].ev = "sell" => (log[i].price = TickBid /\ log[i].price # TickAsk)
    /\ Len(positions) < Len(pre.positions) => call.op = "check_tp_sl"

\* the other conditions of the sell branch hold: the gate passed, voi < 0, the
\* buy branch was not taken and a position is open
C13_Witness ==
    /\ AfterEntry
    /\ should_trade(TickSpread, TickVoi.voi, SPREAD_THRESHOLD)
    /\ TickVoi.voi < 0
    /\ pre.positions # <<>>
    /\ positions = pre.positions

\* the steps of a complete iteration on the current snapshot
FullTick == <<Step("entry", TickBid), Step("check_tp_sl", TickBid), Step("value", TickBid)>>

\* C14: on every snapshot with both sides non-empty the loop runs the entry
\* rule, then check_tp_sl exactly once with the snapshot's best bid, then the
\* valuation with the same bid, and only then takes the next snapshot; the
\* sweep runs on every such tick, also when the gate fails or nothing is traded.
C14_TickOrder ==
    /\ pc = "entry" => steps = <<>>
    /\ pc = "tp_sl" => steps = SubSeq(FullTick, 1, 1)
    /\ pc = "value" => steps = SubSeq(FullTick, 1, 2)
    /\ pc = "sleep" => steps = FullTick
    /\ (pc \in {"recv", "done"} /\ ticks > 0) => steps = FullTick

\* a complete tick whose gate failed and whose sweep still closed a position
C14_Witness ==
    /\ pc = "sleep"
    /\ ~should_trade(TickSpread, TickVoi.voi, SPREAD_THRESHOLD)
    /\ steps = FullTick
    /\ \E i \in 1..Len(log) : log[i].ev \in {"tp", "sl"}

\* C15: execute_trade is LIFO: a sell on a non-empty ledger removes exactly the
\* most recently pushed position, leaves the earlier ones unchanged and in
\* order, and credits price * size - cost whatever the removed entry was; over
\* a run of buy/sell executions the position count is the count before the run
\* plus the buys minus the sells that found a position.
C15_Lifo ==
    /\ (call.op = "execute_trade" /\ call.side = "sell" /\ pre.positions # <<>>) =>
            /\ positions = SubSeq(pre.positions, 1, Len(pre.positions) - 1)
            /\ CashDiff(cash, pre.cash) = call.price * call.size * (RateScale - call.fee)
    /\ (call.op = "execute_trade" /\ call.side = "buy") =>
            positions = Append(pre.positions, call.price)
    /\ pc = "api" => Len(positions) = trades.base + trades.buys - trades.sells

\* a sell at 100.00 that removed the newer position, entered at 102.00, of two
\* different ones, after an earlier execution in the same run
C15_Witness ==
    /\ call.op = "execute_trade" /\ call.side = "sell"
    /\ pre.positions = <<10000, 10200>>
    /\ call.price = 10000
    /\ positions = <<10000>>
    /\ trades.buys + trades.sells = 2

\* C16: there is no capital check: whenever the entry rule selects a buy it is
\* executed whatever the cash is (the position is pushed, cash goes down by
\* bid * TRADE_SIZE * (1 + TRANSACTION_COST)), also when cash is already
\* negative, and the position count never shrinks at the entry rule.
C16_NoCapitalCheck ==
    (AfterEntry /\ should_trade(TickSpread, TickVoi.voi, SPREAD_THRESHOLD) /\ BuySignal) =>
        /\ positions = Append(pre.positions, TickBid)
        /\ CashDiff(cash, pre.cash)
               = -(TickBid * TRADE_SIZE * (RateScale + TRANSACTION_COST))

\* a buy taken with cash already below zero, one position per tick so far
C16_Witness ==
    /\ AfterEntry
    /\ pre.cash.int < 0
    /\ cash.int < pre.cash.int \/ cash.frac < pre.cash.frac
    /\ ticks = MaxTicks
    /\ Len(positions) = MaxTicks

\* -sl < (bid - e)/e < tp, as f64 comparisons
StrictlyInside(e, bid, tp, sl) ==
    /\ FGt(ProfitLoss(bid, e), -sl, RateScale)
    /\ FLt(ProfitLoss(bid, e), tp, RateScale)

\* C17: after check_tp_sl(bid, tp, sl) has returned, and so at the end of every
\* tick, every open position e satisfies -sl < (bid - e)/e < tp.
C17_SweepLeavesInside ==
    /\ (call.op = "check_tp_sl") =>
            \A i \in 1..Len(positions) :
                StrictlyInside(positions[i], call.price, call.tp, call.sl)
    /\ pc \in {"value", "sleep"} =>
            \A i \in 1..Len(positions) :
                StrictlyInside(positions[i], TickBid, TAKE_PROFIT, STOP_LOSS)

\* number of open positions entered at price p
Count(ps, p) == Cardinality({i \in 1..Len(ps) : ps[i] = p})
\* the entry rule of the current tick bought
BoughtThisTick == \E i \in 1..Len(log) : log[i].ev = "buy"

\* C18: a position bought by the entry rule in a tick is still open at the end
\* of that tick, whatever the ledger held before: after the sweep the ledger
\* holds as many positions entered at the tick's bid as right after the buy.
C18_BoughtStaysOpen ==
    (pc = "value" /\ BoughtThisTick) =>
        /\ Count(positions, TickBid) >= Count(pre.positions, TickBid)
        /\ positions # <<>>

====
